---- MODULE Spec2Model ----
(***************************************************************************)
(* Typed accessors for process environment variables (package env).        *)
(*                                                                         *)
(* The repository holds two revisions of the package: src/env.go, whose    *)
(* Bool delegates to strconv.ParseBool, and src/unnamed/part_000, whose    *)
(* Bool lower-cases the value and switches over six tokens.  String, Int,  *)
(* Float64 and Duration are the same in both.                              *)
(*                                                                         *)
(* A Go string is a sequence of one-character strings, so that lower-      *)
(* casing, scanning and parsing are computed character by character.       *)
(***************************************************************************)
EXTENDS Integers, Sequences, FiniteSets, TLC

(***************************************************************************)
(* Bounds of the model.                                                    *)
(***************************************************************************)
\* Longest value enumerated exhaustively in SpecParse.
MaxLen == 4
\* Width of the platform int in bits (32 or 64 in Go), scaled down so that
\* the values of length <= MaxLen reach both sides of the int range.
IntSize == 8
\* Number of goroutines calling accessors concurrently in SpecConc.
NumProcs == 2

(***************************************************************************)
(* Characters.                                                             *)
(***************************************************************************)
Digits == <<"0", "1", "2", "3", "4", "5", "6", "7", "8", "9">>

UpperLetters ==
  <<"A", "B", "C", "D", "E", "F", "G", "H", "I", "J", "K", "L", "M",
    "N", "O", "P", "Q", "R", "S", "T", "U", "V", "W", "X", "Y", "Z">>

LowerLetters ==
  <<"a", "b", "c", "d", "e", "f", "g", "h", "i", "j", "k", "l", "m",
    "n", "o", "p", "q", "r", "s", "t", "u", "v", "w", "x", "y", "z">>

IsDigit(c) == \E i \in DOMAIN Digits : Digits[i] = c

DigitVal(c) == (CHOOSE i \in DOMAIN Digits : Digits[i] = c) - 1

IsUpper(c) == \E i \in DOMAIN UpperLetters : UpperLetters[i] = c

\* unicode.ToLower on one character (ASCII letters; others map to themselves).
LowerChar(c) ==
  IF IsUpper(c)
    THEN LowerLetters[CHOOSE i \in DOMAIN UpperLetters : UpperLetters[i] = c]
    ELSE c

\* strings.ToLower(s)
ToLower(s) == [i \in DOMAIN s |-> LowerChar(s[i])]

\* s[n:]
Drop(s, n) == SubSeq(s, n + 1, Len(s))

RECURSIVE Power(_, _)
Power(b, k) == IF k <= 0 THEN 1 ELSE b * Power(b, k - 1)

(***************************************************************************)
(* Errors.  nil is NoError; a parse error carries the function that        *)
(* failed, the text it names and the reason.                               *)
(***************************************************************************)
NoError == [func |-> "", num |-> <<>>, msg |-> "", unit |-> <<>>]

\* &strconv.NumError{Func, Num, Err}, fmt.Errorf and errors.New values.
Error(func, num, msg) == [func |-> func, num |-> num, msg |-> msg, unit |-> <<>>]

(***************************************************************************)
(* strconv.ParseBool, called by Bool of src/env.go.  It accepts exactly    *)
(* twelve spellings and names the text as given in its error.              *)
(***************************************************************************)
ParseBool(str) ==
  IF str \in { <<"1">>, <<"t">>, <<"T">>, <<"T", "R", "U", "E">>,
               <<"t", "r", "u", "e">>, <<"T", "r", "u", "e">> }
    THEN [val |-> TRUE, err |-> NoError]
  ELSE IF str \in { <<"0">>, <<"f">>, <<"F">>, <<"F", "A", "L", "S", "E">>,
                    <<"f", "a", "l", "s", "e">>, <<"F", "a", "l", "s", "e">> }
    THEN [val |-> FALSE, err |-> NoError]
  ELSE [val |-> FALSE, err |-> Error("ParseBool", str, "invalid syntax")]

(***************************************************************************)
(* strconv.Atoi, called by Int.  The int range is that of IntSize bits.    *)
(***************************************************************************)
MaxInt == Power(2, IntSize - 1) - 1

MinInt == -Power(2, IntSize - 1)

\* The largest unsigned value of the same width (ParseUint's maxVal).
MaxUint == Power(2, IntSize) - 1

RECURSIVE DecimalLen(_)
DecimalLen(n) == IF n < 10 THEN 1 ELSE 1 + DecimalLen(n \div 10)

\* Atoi takes its fast path for strings too short to overflow: sLen < 10
\* when int is 32 bits and sLen < 19 when it is 64, the number of decimal
\* digits of the largest int.
FastPathLen == DecimalLen(MaxInt)

\* The digit loop of Atoi's fast path: n = n*10 + ch, or a syntax error at
\* the first character that is no digit.
RECURSIVE AtoiFastLoop(_, _, _)
AtoiFastLoop(s, i, n) ==
  IF i > Len(s) THEN [val |-> n, msg |-> ""]
  ELSE IF ~IsDigit(s[i]) THEN [val |-> 0, msg |-> "invalid syntax"]
  ELSE AtoiFastLoop(s, i + 1, n * 10 + DigitVal(s[i]))

\* The digit loop of strconv.ParseUint(s, 10, bitSize): base 10 takes no
\* underscore, and n is checked against cutoff before and maxVal after
\* each digit.
RECURSIVE ParseUintLoop(_, _, _)
ParseUintLoop(s, i, n) ==
  IF i > Len(s) THEN [val |-> n, msg |-> ""]
  ELSE IF ~IsDigit(s[i]) THEN [val |-> 0, msg |-> "invalid syntax"]
  ELSE IF n >= MaxUint \div 10 + 1
    THEN [val |-> MaxUint, msg |-> "value out of range"]
  ELSE IF n * 10 + DigitVal(s[i]) > MaxUint
    THEN [val |-> MaxUint, msg |-> "value out of range"]
  ELSE ParseUintLoop(s, i + 1, n * 10 + DigitVal(s[i]))

ParseUint(s) ==
  IF s = <<>> THEN [val |-> 0, msg |-> "invalid syntax"]
  ELSE ParseUintLoop(s, 1, 0)

\* A faulty ParseInt, for comparison: the range check of a positive value
\* is off by one and lets 2^(IntSize-1) through.
ParseIntOffByOne(s) ==
  LET signed == s # <<>> /\ s[1] \in {"+", "-"}
      neg    == s # <<>> /\ s[1] = "-"
      un     == ParseUint(IF signed THEN Drop(s, 1) ELSE s)
      cutoff == Power(2, IntSize - 1)
  IN  IF s = <<>> THEN [val |-> 0, msg |-> "invalid syntax"]
      ELSE IF un.msg = "invalid syntax" THEN [val |-> 0, msg |-> "invalid syntax"]
      ELSE IF ~neg /\ un.val > cutoff
        THEN [val |-> cutoff - 1, msg |-> "value out of range"]
      ELSE IF neg /\ un.val > cutoff
        THEN [val |-> -cutoff, msg |-> "value out of range"]
      ELSE [val |-> IF neg THEN -un.val ELSE un.val, msg |-> ""]

\* strconv.ParseInt(s, 10, 0): the sign, ParseUint on the rest, then the
\* signed range check.  Every error names the whole string s.
ParseInt(s) ==
  LET signed == s # <<>> /\ s[1] \in {"+", "-"}
      neg    == s # <<>> /\ s[1] = "-"
      un     == ParseUint(IF signed THEN Drop(s, 1) ELSE s)
      cutoff == Power(2, IntSize - 1)
  IN  IF s = <<>> THEN [val |-> 0, msg |-> "invalid syntax"]
      ELSE IF un.msg = "invalid syntax" THEN [val |-> 0, msg |-> "invalid syntax"]
      ELSE IF ~neg /\ un.val >= cutoff
        THEN [val |-> cutoff - 1, msg |-> "value out of range"]
      ELSE IF neg /\ un.val > cutoff
        THEN [val |-> -cutoff, msg |-> "value out of range"]
      ELSE [val |-> IF neg THEN -un.val ELSE un.val, msg |-> ""]

Atoi(s) ==
  LET r ==
        IF 0 < Len(s) /\ Len(s) < FastPathLen
          THEN LET signed == s[1] \in {"+", "-"}
                   body   == IF signed THEN Drop(s, 1) ELSE s
                   n      == AtoiFastLoop(body, 1, 0)
               IN  IF signed /\ Len(body) < 1
                     THEN [val |-> 0, msg |-> "invalid syntax"]
                   ELSE IF n.msg # "" THEN n
                   ELSE [val |-> IF s[1] = "-" THEN -n.val ELSE n.val, msg |-> ""]
          ELSE ParseInt(s)
  IN  [val |-> r.val,
       err |-> IF r.msg = "" THEN NoError ELSE Error("Atoi", s, r.msg)]

(***************************************************************************)
(* strconv.ParseFloat(s, 64), called by Float64: an optional sign, decimal *)
(* digits with at most one point, an optional exponent.  A float64 is      *)
(* written m * 10^e with m free of trailing zeros; the binary rounding of  *)
(* the result is not modelled, nor are the spellings of infinity and NaN   *)
(* and the hexadecimal form, which no value of the model uses.             *)
(***************************************************************************)
\* The index after the run of digits that starts at i.
RECURSIVE ScanDigits(_, _)
ScanDigits(s, i) ==
  IF i <= Len(s) /\ IsDigit(s[i]) THEN ScanDigits(s, i + 1) ELSE i

\* The number a run of digits denotes.
RECURSIVE DigitsValue(_, _)
DigitsValue(s, n) ==
  IF s = <<>> THEN n ELSE DigitsValue(Tail(s), n * 10 + DigitVal(Head(s)))

RECURSIVE NormFloat(_, _)
NormFloat(m, e) ==
  IF m = 0 THEN [m |-> 0, e |-> 0]
  ELSE IF m % 10 = 0 THEN NormFloat(m \div 10, e + 1)
  ELSE [m |-> m, e |-> e]

\* Largest and smallest decimal exponents of a float64.
MaxFloatExp == 308

MinFloatExp == -324

ParseFloat(s) ==
  LET signed   == s # <<>> /\ s[1] \in {"+", "-"}
      neg      == s # <<>> /\ s[1] = "-"
      i0       == IF signed THEN 2 ELSE 1
      i1       == ScanDigits(s, i0)
      sawdot   == i1 <= Len(s) /\ s[i1] = "."
      i2       == IF sawdot THEN ScanDigits(s, i1 + 1) ELSE i1
      intPart  == SubSeq(s, i0, i1 - 1)
      fracPart == IF sawdot THEN SubSeq(s, i1 + 1, i2 - 1) ELSE <<>>
      sawdigits == Len(intPart) + Len(fracPart) > 0
      hasExp   == i2 <= Len(s) /\ LowerChar(s[i2]) = "e"
      eneg     == hasExp /\ i2 + 1 <= Len(s) /\ s[i2 + 1] = "-"
      i3       == IF hasExp /\ i2 + 1 <= Len(s) /\ s[i2 + 1] \in {"+", "-"}
                    THEN i2 + 2 ELSE i2 + 1
      i4       == ScanDigits(s, i3)
      expOk    == i4 > i3
      last     == IF hasExp THEN i4 ELSE i2
      ok       == sawdigits /\ (hasExp => expOk) /\ last = Len(s) + 1
      mant     == DigitsValue(intPart \o fracPart, 0)
      ex       == IF hasExp THEN DigitsValue(SubSeq(s, i3, i4 - 1), 0) ELSE 0
      v        == NormFloat(mant, (IF eneg THEN -ex ELSE ex) - Len(fracPart))
      top      == DecimalLen(v.m) + v.e - 1
  IN  IF ~ok THEN [val |-> [m |-> 0, e |-> 0],
                   err |-> Error("ParseFloat", s, "invalid syntax")]
      ELSE IF v.m # 0 /\ top > MaxFloatExp
        THEN [val |-> [m |-> 0, e |-> 0],
              err |-> Error("ParseFloat", s, "value out of range")]
      ELSE IF v.m # 0 /\ top < MinFloatExp
        THEN [val |-> [m |-> 0, e |-> 0], err |-> NoError]
      ELSE [val |-> [m |-> IF neg THEN -v.m ELSE v.m, e |-> v.e],
            err |-> NoError]

(***************************************************************************)
(* time.ParseDuration, called by Duration: an optional sign, then one or   *)
(* more terms, each a decimal number (digits, at most one point, a digit   *)
(* on either side of it) followed by a unit; or "0" alone.                 *)
(* A time.Duration is an int64 count of nanoseconds, written here as       *)
(* sec * 10^9 + nsec with both parts of the sign of the whole.  The        *)
(* overflow exits of ParseDuration need a magnitude above 2^63 ns (seven   *)
(* digits of hours), longer than any value of the model, and are left out; *)
(* so are the two non-ASCII spellings of the microsecond.                  *)
(***************************************************************************)
NanosPerSec == 1000000000

\* time's unitMap.
UnitNames ==
  { <<"n", "s">>, <<"u", "s">>, <<"m", "s">>, <<"s">>, <<"m">>, <<"h">> }

UnitOf(u) ==
  CASE u = <<"n", "s">> -> [sec |-> 0, nsec |-> 1]
    [] u = <<"u", "s">> -> [sec |-> 0, nsec |-> 1000]
    [] u = <<"m", "s">> -> [sec |-> 0, nsec |-> 1000000]
    [] u = <<"s">>      -> [sec |-> 1, nsec |-> 0]
    [] u = <<"m">>      -> [sec |-> 60, nsec |-> 0]
    [] u = <<"h">>      -> [sec |-> 3600, nsec |-> 0]

\* v *= unit
ScaleUnit(v, unit) ==
  IF unit.sec > 0 THEN [sec |-> v * unit.sec, nsec |-> 0]
  ELSE LET per == NanosPerSec \div unit.nsec
       IN  [sec |-> v \div per, nsec |-> (v % per) * unit.nsec]

\* uint64(float64(f) * (float64(unit) / scale)), scale a power of ten.
FractionOf(f, scale, unit) ==
  IF unit.sec > 0
    THEN [sec  |-> (f * unit.sec) \div scale,
          nsec |-> ((f * unit.sec) % scale) * (NanosPerSec \div scale)]
    ELSE [sec |-> 0, nsec |-> (f * unit.nsec) \div scale]

\* d += v
AddDuration(d, v) ==
  [sec  |-> d.sec + v.sec + (d.nsec + v.nsec) \div NanosPerSec,
   nsec |-> (d.nsec + v.nsec) % NanosPerSec]

\* The index after the unit that starts at i: everything up to the next
\* '.' or digit.
RECURSIVE ScanUnit(_, _)
ScanUnit(s, i) ==
  IF i <= Len(s) /\ s[i] # "." /\ ~IsDigit(s[i]) THEN ScanUnit(s, i + 1) ELSE i

\* The loop of ParseDuration over s from index i, d the sum so far.
RECURSIVE ParseDurationLoop(_, _, _)
ParseDurationLoop(s, i, d) ==
  IF i > Len(s) THEN [val |-> d, msg |-> "", unit |-> <<>>]
  ELSE
    LET i1   == ScanDigits(s, i)
        pre  == i1 # i
        dot  == i1 <= Len(s) /\ s[i1] = "."
        i2   == IF dot THEN ScanDigits(s, i1 + 1) ELSE i1
        post == dot /\ i2 # i1 + 1
        v    == DigitsValue(SubSeq(s, i, i1 - 1), 0)
        f    == IF dot THEN DigitsValue(SubSeq(s, i1 + 1, i2 - 1), 0) ELSE 0
        scale == IF dot THEN Power(10, i2 - i1 - 1) ELSE 1
        i3   == ScanUnit(s, i2)
        u    == SubSeq(s, i2, i3 - 1)
        zero == [sec |-> 0, nsec |-> 0]
    IN  IF ~(s[i] = "." \/ IsDigit(s[i]))
          THEN [val |-> zero, msg |-> "invalid duration", unit |-> <<>>]
        ELSE IF ~pre /\ ~post
          THEN [val |-> zero, msg |-> "invalid duration", unit |-> <<>>]
        ELSE IF i3 = i2
          THEN [val |-> zero, msg |-> "missing unit in duration", unit |-> <<>>]
        ELSE IF u \notin UnitNames
          THEN [val |-> zero, msg |-> "unknown unit in duration", unit |-> u]
        ELSE ParseDurationLoop(s, i3,
               AddDuration(d,
                 AddDuration(ScaleUnit(v, UnitOf(u)),
                             IF f > 0 THEN FractionOf(f, scale, UnitOf(u))
                                      ELSE zero)))

ParseDuration(orig) ==
  LET signed == orig # <<>> /\ orig[1] \in {"+", "-"}
      neg    == orig # <<>> /\ orig[1] = "-"
      s      == IF signed THEN Drop(orig, 1) ELSE orig
      zero   == [sec |-> 0, nsec |-> 0]
      r      == ParseDurationLoop(s, 1, zero)
  IN  IF s = <<"0">> THEN [val |-> zero, err |-> NoError]
      ELSE IF s = <<>>
        THEN [val |-> zero,
              err |-> Error("ParseDuration", orig, "invalid duration")]
      ELSE IF r.msg # ""
        THEN [val |-> zero,
              err |-> [func |-> "ParseDuration", num |-> orig,
                       msg |-> r.msg, unit |-> r.unit]]
      ELSE [val |-> IF neg THEN [sec |-> -r.val.sec, nsec |-> -r.val.nsec]
                           ELSE r.val,
            err |-> NoError]

(***************************************************************************)
(* State.                                                                  *)
(***************************************************************************)
VARIABLES
  env,    \* the process environment: for each key, whether it is bound and to what
  Log,    \* the function installed in the package variable Log
  pc,     \* where each calling goroutine is: "idle", "log", "ret" or "panicked"
  cur,    \* the accessor call each goroutine is in
  prev    \* the last call that returned (history, kept in Spec and SpecParse)

vars == <<env, Log, pc, cur, prev>>

Procs == 1..NumProcs

Keys == {"A"}

\* The functions that can be installed in Log: the package's own logger
\* (log.Printf), a function of the application that records the report and
\* returns, and one that panics ("Can potentially be changed to panic on
\* errors").
Hooks == {"default", "custom", "panic"}

Accessors == {"String", "Bool", "BoolStrconv", "Int", "Float64", "Duration"}

Unset == [set |-> FALSE, val |-> <<>>]

Bound(v) == [set |-> TRUE, val |-> v]

\* The values the environment binds keys to in Spec and SpecConc.
Values ==
  { <<>>,
    <<"1">>,
    <<"t", "R", "u", "E">>,
    <<"Y", "E", "S">>,
    <<"3", ".", "5">>,
    <<"1", "h", "3", "0", "m">> }

Defaults(fn) ==
  CASE fn = "String"   -> { <<"d">>, <<>> }
    [] fn \in {"Bool", "BoolStrconv"} -> { TRUE, FALSE }
    [] fn = "Int"      -> { 7, -3 }
    [] fn = "Float64"  -> { [m |-> 25, e |-> -1], [m |-> 0, e |-> 0] }
    [] fn = "Duration" -> { [sec |-> 5, nsec |-> 0], [sec |-> 0, nsec |-> 0] }

NoCall ==
  [fn |-> "none", key |-> "", def |-> <<>>, raw |-> Unset,
   out |-> [ret |-> <<>>, err |-> NoError], hooks |-> <<>>,
   stable |-> FALSE]

(***************************************************************************)
(* The accessors.  Each gives the value the call returns and the error it  *)
(* passes to Log before returning (NoError when it does not call Log).     *)
(***************************************************************************)
\* os.Getenv(key): the value bound to key, "" when there is none.
Getenv(key) == IF env[key].set THEN env[key].val ELSE <<>>

\* Two faulty versions of String, for comparison: one tests whether the
\* key is bound (os.LookupEnv) instead of whether the value is empty, the
\* other forgets the default.
StringLookupEnv(key, def) == IF env[key].set THEN env[key].val ELSE def

StringNoDefault(key, def) == Getenv(key)

\* String: "It will use default if variable is empty."
String(key, def) ==
  LET s == Getenv(key) IN IF s # <<>> THEN s ELSE def

\* Bool of src/unnamed/part_000.
Bool(key, def) ==
  LET s == ToLower(String(key, <<>>))
  IN  IF s \in { <<"t", "r", "u", "e">>, <<"t">>, <<"1">> }
        THEN [ret |-> TRUE, err |-> NoError]
      ELSE IF s \in { <<"f", "a", "l", "s", "e">>, <<"f">>, <<"0">> }
        THEN [ret |-> FALSE, err |-> NoError]
      ELSE IF s # <<>>
        THEN [ret |-> def, err |-> Error("Bool", s, "unknown bool value")]
      ELSE [ret |-> def, err |-> NoError]

\* Bool of src/env.go.
BoolStrconv(key, def) ==
  LET s == String(key, <<>>)
      d == ParseBool(s)
  IN  IF s # <<>>
        THEN IF d.err = NoError THEN [ret |-> d.val, err |-> NoError]
                                ELSE [ret |-> def, err |-> d.err]
        ELSE [ret |-> def, err |-> NoError]

\* Int (the name Int is taken by the module Integers).
EnvInt(key, def) ==
  LET s == String(key, <<>>)
      d == Atoi(s)
  IN  IF s # <<>>
        THEN IF d.err = NoError THEN [ret |-> d.val, err |-> NoError]
                                ELSE [ret |-> def, err |-> d.err]
        ELSE [ret |-> def, err |-> NoError]

Float64(key, def) ==
  LET s == String(key, <<>>)
      d == ParseFloat(s)
  IN  IF s # <<>>
        THEN IF d.err = NoError THEN [ret |-> d.val, err |-> NoError]
                                ELSE [ret |-> def, err |-> d.err]
        ELSE [ret |-> def, err |-> NoError]

Duration(key, def) ==
  LET s == String(key, <<>>)
      d == ParseDuration(s)
  IN  IF s # <<>>
        THEN IF d.err = NoError THEN [ret |-> d.val, err |-> NoError]
                                ELSE [ret |-> def, err |-> d.err]
        ELSE [ret |-> def, err |-> NoError]

\* The accessor fn applied to (key, def) in the current environment.
Run(fn, key, def) ==
  CASE fn = "String"      -> [ret |-> String(key, def), err |-> NoError]
    [] fn = "Bool"        -> Bool(key, def)
    [] fn = "BoolStrconv" -> BoolStrconv(key, def)
    [] fn = "Int"         -> EnvInt(key, def)
    [] fn = "Float64"     -> Float64(key, def)
    [] fn = "Duration"    -> Duration(key, def)

\* Two faulty versions of the else branch, for comparison: one drops the
\* error, the other reports an error for a key only the first time.
ShouldLogNever(key, err) == FALSE

ShouldLogOnce(key, err) ==
  err # NoError /\ ~(prev.fn # "none" /\ prev.key = key /\ prev.out.err = err)

\* The else branch of each accessor: Log is called exactly when the parse
\* returned an error.
ShouldLog(key, err) == err # NoError

\* A faulty version, for comparison: the accessor calls the package's own
\* logger whatever Log holds.
HookCalledDefault == "default"

\* Log(key, err) calls the function the package variable holds when the
\* call is made.

HookCalled == Log

\* A faulty version, for comparison: the package's own logger panics too
\* (log.Panicf for log.Printf).
HookPanicsDefault(h) == h \in {"panic", "default"}

\* Whether a function installed in Log panics instead of returning; the
\* package's own logger writes a line with log.Printf and returns.

HookPanics(h) == h = "panic"

\* An unrecovered panic ends the program.
Crashed == \E p \in Procs : pc[p] = "panicked"

(***************************************************************************)
(* Actions.                                                                *)
(***************************************************************************)
\* Goroutine p calls accessor fn: the accessor reads the environment once
\* and parses what it read; it goes on to call Log or to return.
CallWith(p, fn, key, def) ==
  /\ ~Crashed
  /\ pc[p] = "idle"
  /\ LET out == Run(fn, key, def)
     IN  /\ cur' = [cur EXCEPT ![p] =
                      [fn |-> fn, key |-> key, def |-> def, raw |-> env[key],
                       out |-> out, hooks |-> <<>>, stable |-> TRUE]]
         /\ pc' = [pc EXCEPT ![p] = IF ShouldLog(key, out.err) THEN "log" ELSE "ret"]
  /\ UNCHANGED <<env, Log, prev>>

\* A faulty version of Call, for comparison: the accessor takes the
\* variable out of the environment once it has read it.
CallConsuming(p) ==
  \E fn \in Accessors, key \in Keys :
    \E def \in Defaults(fn) :
      /\ ~Crashed
      /\ pc[p] = "idle"
      /\ LET out == Run(fn, key, def)
         IN  /\ cur' = [cur EXCEPT ![p] =
                          [fn |-> fn, key |-> key, def |-> def, raw |-> env[key],
                           out |-> out, hooks |-> <<>>, stable |-> TRUE]]
             /\ pc' = [pc EXCEPT ![p] = IF ShouldLog(key, out.err) THEN "log" ELSE "ret"]
      /\ env' = [env EXCEPT ![key] = Unset]
      /\ UNCHANGED <<Log, prev>>

Call(p) ==
  \E fn \in Accessors, key \in Keys :
    \E def \in Defaults(fn) : CallWith(p, fn, key, def)

\* Log(key, err): the installed function is called with the caller's key
\* and the parse error; if it panics the accessor does not return.
Report(p) ==
  /\ ~Crashed
  /\ pc[p] = "log"
  /\ LET h == HookCalled
     IN  /\ cur' = [cur EXCEPT ![p].hooks =
                      Append(@, [hook |-> h, key |-> cur[p].key,
                                 err |-> cur[p].out.err])]
         /\ pc' = [pc EXCEPT ![p] = IF HookPanics(h) THEN "panicked" ELSE "ret"]
  /\ UNCHANGED <<env, Log, prev>>

\* return d / return def
Return(p) ==
  /\ ~Crashed
  /\ pc[p] = "ret"
  /\ cur' = [cur EXCEPT ![p] = NoCall]
  /\ pc' = [pc EXCEPT ![p] = "idle"]
  /\ UNCHANGED <<env, Log>>

\* History: the call that returns becomes the last call that returned.
Remember(p) == prev' = cur[p]

\* Every call in progress, and the last one returned, has now seen the
\* environment or the hook change.
Disturbed(c) == [c EXCEPT !.stable = FALSE]

\* The process (not this package) binds a key: os.Setenv(key, v).
Setenv ==
  \E key \in Keys, v \in Values :
    /\ ~Crashed
    /\ env' = [env EXCEPT ![key] = Bound(v)]
    /\ cur' = [p \in Procs |-> Disturbed(cur[p])]
    /\ prev' = Disturbed(prev)
    /\ UNCHANGED <<Log, pc>>

\* os.Unsetenv(key)
Unsetenv ==
  \E key \in Keys :
    /\ ~Crashed
    /\ env' = [env EXCEPT ![key] = Unset]
    /\ cur' = [p \in Procs |-> Disturbed(cur[p])]
    /\ prev' = Disturbed(prev)
    /\ UNCHANGED <<Log, pc>>

\* The application assigns the package variable: env.Log = h.
SetLog ==
  \E h \in Hooks :
    /\ ~Crashed
    /\ Log' = h
    /\ cur' = [p \in Procs |-> Disturbed(cur[p])]
    /\ prev' = Disturbed(prev)
    /\ UNCHANGED <<env, pc>>

(***************************************************************************)
(* Spec: one goroutine calls accessors one after another while the         *)
(* process changes its environment and the application reassigns Log.      *)
(***************************************************************************)
Bindings == {Unset} \cup {Bound(v) : v \in Values}

Init ==
  /\ env \in [Keys -> Bindings]
  /\ Log = "default"
  /\ pc = [p \in Procs |-> "idle"]
  /\ cur = [p \in Procs |-> NoCall]
  /\ prev = NoCall

Next ==
  \/ Call(1)
  \/ Report(1)
  \/ Return(1) /\ Remember(1)
  \/ Setenv
  \/ Unsetenv
  \/ SetLog

Spec == Init /\ [][Next]_vars

(***************************************************************************)
(* SpecConc: NumProcs goroutines call accessors concurrently; nothing else *)
(* touches the environment or Log.  The application may have installed any *)
(* hook before the calls start.                                            *)
(***************************************************************************)
InitConc ==
  /\ env \in [Keys -> Bindings]
  /\ Log \in Hooks
  /\ pc = [p \in Procs |-> "idle"]
  /\ cur = [p \in Procs |-> NoCall]
  /\ prev = NoCall

NextConc ==
  \E p \in Procs :
    \/ Call(p)
    \/ Report(p)
    \/ Return(p) /\ UNCHANGED prev

SpecConc == InitConc /\ [][NextConc]_vars

(***************************************************************************)
(* SpecParse: Int applied to every string of at most MaxLen characters     *)
(* over an alphabet of signs, digits and a point.                          *)
(***************************************************************************)
IntAlphabet == {"-", "+", "0", "1", "2", "7", "8", "."}

Strings(n) == UNION { [1..k -> IntAlphabet] : k \in 0..n }

InitParse ==
  /\ env \in [Keys -> {Bound(s) : s \in Strings(MaxLen)}]
  /\ Log = "default"
  /\ pc = [p \in Procs |-> "idle"]
  /\ cur = [p \in Procs |-> NoCall]
  /\ prev = NoCall

CallInt(p) ==
  \E key \in Keys, def \in Defaults("Int") : CallWith(p, "Int", key, def)

NextParse ==
  \/ CallInt(1)
  \/ Report(1)
  \/ Return(1) /\ Remember(1)

SpecParse == InitParse /\ [][NextParse]_vars

(***************************************************************************)
(* Vocabulary of the properties.                                           *)
(***************************************************************************)
\* Goroutine p is in a call.
InCall(p) == pc[p] # "idle"

\* The call of p is over: it is about to hand its value to the caller, or
\* the hook it called has panicked.
Finished(p) == pc[p] \in {"ret", "panicked"}

TrueTokens == { <<"t", "r", "u", "e">>, <<"t">>, <<"1">> }

FalseTokens == { <<"f", "a", "l", "s", "e">>, <<"f">>, <<"0">> }

\* v is a non-empty value that does not parse under the grammar of fn.
Malformed(fn, v) ==
  /\ v # <<>>
  /\ CASE fn = "String"      -> FALSE
       [] fn = "Bool"        -> ToLower(v) \notin TrueTokens \cup FalseTokens
       [] fn = "BoolStrconv" -> ParseBool(v).err # NoError
       [] fn = "Int"         -> Atoi(v).err # NoError
       [] fn = "Float64"     -> ParseFloat(v).err # NoError
       [] fn = "Duration"    -> ParseDuration(v).err # NoError

\* The call of p read a malformed value.
ReadMalformed(p) == cur[p].raw.set /\ Malformed(cur[p].fn, cur[p].raw.val)

\* The last returned call and the call of p are the same call.
SameCall(p) ==
  /\ prev.fn = cur[p].fn
  /\ prev.key = cur[p].key
  /\ prev.def = cur[p].def

(***************************************************************************)
(* Properties.                                                             *)
(***************************************************************************)

\* C1: a call of any accessor on a key that is not bound calls Log zero
\* times and returns exactly the default.
C1_UnboundReturnsDefault ==
  \A p \in Procs :
    InCall(p) /\ ~cur[p].raw.set =>
      /\ pc[p] = "ret"
      /\ cur[p].hooks = <<>>
      /\ cur[p].out.ret = cur[p].def

C1_Witness ==
  \E p \in Procs :
    /\ pc[p] = "ret"
    /\ ~cur[p].raw.set
    /\ cur[p].fn = "String"
    /\ cur[p].def = <<"d">>
    /\ prev.fn = "Duration"
    /\ ~prev.raw.set

\* C2: a call on a key bound to the empty string returns the default
\* without calling Log, and so returns the same value, with the same (zero)
\* reports, as the same call made when the key was not bound.
C2_EmptyLikeUnbound ==
  \A p \in Procs :
    /\ InCall(p) /\ cur[p].raw = Bound(<<>>) =>
         /\ pc[p] = "ret"
         /\ cur[p].hooks = <<>>
         /\ cur[p].out.ret = cur[p].def
    /\ /\ InCall(p)
       /\ SameCall(p)
       /\ \/ cur[p].raw = Bound(<<>>) /\ ~prev.raw.set
          \/ prev.raw = Bound(<<>>) /\ ~cur[p].raw.set
       => /\ pc[p] = "ret"
          /\ cur[p].out.ret = prev.out.ret
          /\ Len(cur[p].hooks) = 0
          /\ Len(prev.hooks) = 0

C2_Witness ==
  \E p \in Procs :
    /\ pc[p] = "ret"
    /\ SameCall(p)
    /\ cur[p].fn = "String"
    /\ cur[p].def = <<"d">>
    /\ cur[p].raw = Bound(<<>>)
    /\ ~prev.raw.set

\* C3: a call of Bool, Int, Float64 or Duration that read a malformed value
\* calls Log exactly once, with the caller's key, before it returns, and
\* returns the default; a call that read anything else never calls Log.
C3_MalformedReportedOnce ==
  \A p \in Procs :
    InCall(p) /\ cur[p].fn # "String" =>
      IF ReadMalformed(p)
        THEN /\ pc[p] = "log" => cur[p].hooks = <<>>
             /\ Finished(p) =>
                  /\ Len(cur[p].hooks) = 1
                  /\ cur[p].hooks[1].key = cur[p].key
                  /\ cur[p].hooks[1].err # NoError
             /\ cur[p].out.ret = cur[p].def
        ELSE /\ pc[p] = "ret"
             /\ cur[p].hooks = <<>>

C3_Witness ==
  \E p \in Procs :
    /\ pc[p] = "ret"
    /\ cur[p].fn = "Duration"
    /\ cur[p].raw = Bound(<<"Y", "E", "S">>)
    /\ Len(cur[p].hooks) = 1
    /\ prev.fn = "Float64"
    /\ Len(prev.hooks) = 1

\* C4: Bool returns true for every spelling of "true", "t", "1" in any mix
\* of case and false for every spelling of "false", "f", "0", whatever the
\* default, and does not call Log.  (Stated of both revisions of Bool.)
C4_BoolCaseInsensitive ==
  \A p \in Procs :
    /\ InCall(p)
    /\ cur[p].fn \in {"Bool", "BoolStrconv"}
    /\ cur[p].raw.set
    /\ ToLower(cur[p].raw.val) \in TrueTokens \cup FalseTokens
    => /\ pc[p] = "ret"
       /\ cur[p].hooks = <<>>
       /\ cur[p].out.ret = (ToLower(cur[p].raw.val) \in TrueTokens)

\* C4, for the Bool of src/unnamed/part_000 alone, where it holds.
C4_SwitchBoolCaseInsensitive ==
  \A p \in Procs :
    /\ InCall(p)
    /\ cur[p].fn = "Bool"
    /\ cur[p].raw.set
    /\ ToLower(cur[p].raw.val) \in TrueTokens \cup FalseTokens
    => /\ pc[p] = "ret"
       /\ cur[p].hooks = <<>>
       /\ cur[p].out.ret = (ToLower(cur[p].raw.val) \in TrueTokens)

\* C5: the error Bool passes to Log for an unrecognized value names the
\* value exactly as the environment binds it, and comes with the key.
\* (Stated of both revisions of Bool.)
C5_BoolErrorNamesLiteral ==
  \A p \in Procs :
    /\ InCall(p)
    /\ cur[p].fn \in {"Bool", "BoolStrconv"}
    /\ cur[p].hooks # <<>>
    => /\ cur[p].hooks[1].key = cur[p].key
       /\ cur[p].hooks[1].err.num = cur[p].raw.val

\* C5, for the Bool of src/env.go alone, where it holds.
C5_StrconvBoolErrorNamesLiteral ==
  \A p \in Procs :
    /\ InCall(p)
    /\ cur[p].fn = "BoolStrconv"
    /\ cur[p].hooks # <<>>
    => /\ cur[p].hooks[1].key = cur[p].key
       /\ cur[p].hooks[1].err.num = cur[p].raw.val

\* The values of the result type of accessor fn.
ResultType(fn) ==
  CASE fn = "String"   -> Seq(STRING)
    [] fn \in {"Bool", "BoolStrconv"} -> BOOLEAN
    [] fn = "Int"      -> MinInt..MaxInt
    [] fn = "Float64"  -> [m : Int, e : Int]
    [] fn = "Duration" -> [sec : Int, nsec : Int]

\* C6 as claimed: whatever function is installed in Log, no call ends in a
\* panic.
C6_NeverPanics == \A p \in Procs : pc[p] # "panicked"

\* C6 as amended: a call can always take its next step; it returns a value
\* of its result type; and it ends in a panic only on the malformed path,
\* in the hook it called, when that hook is a function that panics.
C6_TotalUnlessHookPanics ==
  \A p \in Procs :
    /\ pc[p] \in {"log", "ret"} => ENABLED (Report(p) \/ Return(p))
    /\ pc[p] = "ret" => cur[p].out.ret \in ResultType(cur[p].fn)
    /\ pc[p] = "panicked" =>
         /\ ReadMalformed(p)
         /\ Len(cur[p].hooks) = 1
         /\ cur[p].hooks[1].hook = "panic"

C6_Witness ==
  \E p \in Procs :
    /\ pc[p] = "panicked"
    /\ cur[p].fn = "Int"
    /\ prev.fn = "Int"
    /\ Len(prev.hooks) = 1
    /\ prev.hooks[1].hook = "default"

\* C7: every report goes to the function Log holds at the moment the
\* report is made, with the caller's key and the parse error.  So a call
\* made after Log was last assigned calls the function then installed and
\* no other: once Log holds a custom function, a call that reads a
\* malformed value calls that function exactly once and the package's own
\* logger not at all.
C7_CallsInstalledHook ==
  /\ [](\A p \in Procs :
          Finished(p) /\ cur[p].stable =>
            /\ \A i \in DOMAIN cur[p].hooks : cur[p].hooks[i].hook = Log
            /\ ReadMalformed(p) /\ Log # "default" =>
                 /\ Len(cur[p].hooks) = 1
                 /\ cur[p].hooks[1].hook # "default")
  /\ [][\A p \in Procs :
          pc[p] = "log" /\ pc'[p] # "log" =>
            cur'[p].hooks =
              Append(cur[p].hooks,
                     [hook |-> Log, key |-> cur[p].key, err |-> cur[p].out.err])]_vars

C7_Witness ==
  \E p \in Procs :
    /\ pc[p] = "ret"
    /\ cur[p].stable
    /\ Log = "custom"
    /\ cur[p].fn = "Int"
    /\ ReadMalformed(p)
    /\ Len(cur[p].hooks) = 1
    /\ prev.fn = "Int"
    /\ Len(prev.hooks) = 1
    /\ prev.hooks[1].hook = "default"

\* C8: two successive calls of the same accessor with the same key and
\* default, with no change of the environment or of Log from the start of
\* the first to the end of the second, return the same value and call Log
\* the same number of times, 0 or 1.
C8_Idempotent ==
  \A p \in Procs :
    Finished(p) /\ SameCall(p) /\ prev.stable /\ cur[p].stable =>
      /\ pc[p] = "ret" => cur[p].out.ret = prev.out.ret
      /\ Len(cur[p].hooks) = Len(prev.hooks)
      /\ Len(cur[p].hooks) \in {0, 1}

C8_Witness ==
  \E p \in Procs :
    /\ pc[p] = "ret"
    /\ SameCall(p)
    /\ prev.stable
    /\ cur[p].stable
    /\ cur[p].fn = "Float64"
    /\ Len(cur[p].hooks) = 1
    /\ Len(prev.hooks) = 1

\* C9: no step of an accessor call writes the environment or assigns Log;
\* so under any interleaving of concurrent calls the binding a call read is
\* still the binding of its key, and the call returns the value and makes
\* the reports it makes when run alone in that environment with that hook.
C9_InterleavingInvisible ==
  /\ [](\A p \in Procs :
          InCall(p) =>
            LET c     == cur[p]
                alone == Run(c.fn, c.key, c.def)
            IN  /\ c.raw = env[c.key]
                /\ c.out.ret = alone.ret
                /\ pc[p] = "log" => alone.err # NoError /\ c.hooks = <<>>
                /\ Finished(p) =>
                     c.hooks =
                       IF alone.err = NoError THEN <<>>
                       ELSE << [hook |-> Log, key |-> c.key, err |-> alone.err] >>)
  /\ [][env' = env /\ Log' = Log]_vars

C9_Witness ==
  /\ pc[1] = "log"
  /\ pc[2] = "ret"
  /\ cur[1].fn = "Int"
  /\ cur[2].fn = "Int"
  /\ Len(cur[2].hooks) = 1
  /\ cur[2].hooks[1].hook = "custom"

\* s is a base-10 signed integer literal: an optional sign and one or more
\* digits.
WellFormedInt(s) ==
  /\ s # <<>>
  /\ LET body == IF s[1] \in {"+", "-"} THEN Tail(s) ELSE s
     IN  /\ body # <<>>
         /\ \A i \in DOMAIN body : IsDigit(body[i])

RECURSIVE PlaceValue(_, _)
PlaceValue(body, i) ==
  IF i > Len(body) THEN 0
  ELSE DigitVal(body[i]) * Power(10, Len(body) - i) + PlaceValue(body, i + 1)

\* The integer a well-formed literal denotes.
Denotes(s) ==
  LET body == IF s[1] \in {"+", "-"} THEN Tail(s) ELSE s
  IN  IF s[1] = "-" THEN -PlaceValue(body, 1) ELSE PlaceValue(body, 1)

\* C10: on a non-empty value Int returns the integer the value denotes,
\* without calling Log, exactly when the value is a well-formed base-10
\* signed integer literal within the int range; on every other non-empty
\* value it returns the default and calls Log once with the key and
\* strconv's error naming the value: a range error for a literal outside
\* the range, a syntax error otherwise (or a range error, when the digits
\* before the offending character already overflow).
C10_IntParsesDecimal ==
  \A p \in Procs :
    InCall(p) /\ cur[p].fn = "Int" /\ cur[p].raw.set /\ cur[p].raw.val # <<>> =>
      LET c == cur[p]
          s == c.raw.val
          fits == WellFormedInt(s) /\ Denotes(s) \in MinInt..MaxInt
      IN  IF fits
            THEN /\ pc[p] = "ret"
                 /\ c.hooks = <<>>
                 /\ c.out.ret = Denotes(s)
            ELSE /\ c.out.ret = c.def
                 /\ pc[p] = "log" => c.hooks = <<>>
                 /\ Finished(p) =>
                      /\ Len(c.hooks) = 1
                      /\ c.hooks[1].hook = Log
                      /\ c.hooks[1].key = c.key
                      /\ c.hooks[1].err.func = "Atoi"
                      /\ c.hooks[1].err.num = s
                      /\ c.hooks[1].err.msg \in
                           IF WellFormedInt(s)
                             THEN {"value out of range"}
                             ELSE {"invalid syntax", "value out of range"}

C10_Witness ==
  \E p \in Procs :
    /\ pc[p] = "ret"
    /\ cur[p].fn = "Int"
    /\ cur[p].raw.set
    /\ WellFormedInt(cur[p].raw.val)
    /\ Denotes(cur[p].raw.val) = MaxInt + 1
    /\ Len(cur[p].hooks) = 1
    /\ cur[p].hooks[1].err.msg = "value out of range"
    /\ prev.fn = "Int"
    /\ prev.def # cur[p].def

====
